---- MODULE Spec2Model ----
(***************************************************************************)
(* A model of the workflow automation agent: the rule-based planner        *)
(* (app/agent.py, _plan), the sequential executor (app/agent.py, execute), *)
(* the tool registry (app/tools.py) and the memory store (app/memory.py).  *)
(*                                                                         *)
(* Texts (instructions, memory texts, queries) are sequences of one-       *)
(* character strings, so that lower(), substring search, split() and       *)
(* strip() are computed as Python computes them.  Formatted strings        *)
(* (f-strings) are the tuple of their segments.  Timestamps (created_at,   *)
(* updated_at) and tool payloads are not modelled.  A uuid4 task id is the *)
(* ordinal of the execute() call that drew it (ids are fresh and opaque).  *)
(***************************************************************************)
EXTENDS Integers, Sequences, FiniteSets, TLC

\* ------------------------------------------------------------------ bounds

\* Number of execute() calls that may be started (and run concurrently).
MaxCalls == 2
\* Length of the memory log in the memory-store specification.
MaxEntries == 3
\* Largest limit passed to recent() and semantic_search().
MaxLimit == 3

VARIABLES
    registered,   \* ToolRegistry._tools: the names that have a handler
    tasks,        \* WorkflowAutomationAgent.tasks: task_id -> TaskRecord
    entries,      \* MemoryStore.entries: the memory log
    calls,        \* the execute() calls: position and local variables of each
    lookup,       \* what the last get_task() returned
    lastQuery,    \* what the operation just made returned, when it was a query
    email_log     \* the file email_log.json that email_sender_tool of build_tools writes

vars == <<registered, tasks, entries, calls, lookup, lastQuery, email_log>>

\* Python's None.
None == [none |-> TRUE]

\* ------------------------------------------------------------------- texts

LowerChar(c) ==
    CASE c = "A" -> "a" [] c = "B" -> "b" [] c = "C" -> "c" [] c = "D" -> "d"
      [] c = "E" -> "e" [] c = "F" -> "f" [] c = "G" -> "g" [] c = "H" -> "h"
      [] c = "I" -> "i" [] c = "J" -> "j" [] c = "K" -> "k" [] c = "L" -> "l"
      [] c = "M" -> "m" [] c = "N" -> "n" [] c = "O" -> "o" [] c = "P" -> "p"
      [] c = "Q" -> "q" [] c = "R" -> "r" [] c = "S" -> "s" [] c = "T" -> "t"
      [] c = "U" -> "u" [] c = "V" -> "v" [] c = "W" -> "w" [] c = "X" -> "x"
      [] c = "Y" -> "y" [] c = "Z" -> "z" [] OTHER -> c

\* str.lower()
Lower(s) == [i \in 1..Len(s) |-> LowerChar(s[i])]

\* `kw in text` for two strings: kw occurs as a contiguous substring.
Contains(text, kw) ==
    \E i \in 0..(Len(text) - Len(kw)) : SubSeq(text, i + 1, i + Len(kw)) = kw

\* The elements of a sequence.
Range(s) == {s[i] : i \in 1..Len(s)}

\* The sequence 1, ..., k.
UpTo(k) == [i \in 1..k |-> i]

\* dict.get(key, default)
DictGet(d, key, default) == IF key \in DOMAIN d THEN d[key] ELSE default

EmptyDict == [k \in {} |-> None]

\* ----------------------------------------------------------------- planner

KwSales == <<"s","a","l","e","s">>
KwSummary == <<"s","u","m","m","a","r","y">>
KwEmail == <<"e","m","a","i","l">>
KwMeeting == <<"m","e","e","t","i","n","g">>
KwSummarize == <<"s","u","m","m","a","r","i","z","e">>
KwCrm == <<"c","r","m">>
KwUpdateCustomer == <<"u","p","d","a","t","e"," ","c","u","s","t","o","m","e","r">>

DefaultWeek == "2026-W11"
DefaultRecipients == <<"management@company.com">>

\* Variant of SalesSteps whose report step takes the default week whatever the
\* context holds.
SalesSteps_ReportDefaultWeek(text, context) ==
    IF Contains(text, KwSales) /\ Contains(text, KwSummary)
    THEN LET week == DictGet(context, "week", DefaultWeek) IN
         << [tool |-> "sql_query",
             description |-> "Fetch weekly sales totals",
             arguments |-> [query |->
                 <<"SELECT salesperson, SUM(amount) AS total_amount FROM sales WHERE week = '",
                   week, "' GROUP BY salesperson">>]],
            [tool |-> "report_generator",
             description |-> "Generate sales summary report",
             arguments |-> [title |-> <<"Sales Summary - ", DefaultWeek>>,
                            body |-> <<"Automatically generated summary from SQL results.">>,
                            filename |-> <<"sales-summary-", DefaultWeek, ".txt">>]] >>
    ELSE << >>

SalesSteps(text, context) ==
    IF Contains(text, KwSales) /\ Contains(text, KwSummary)
    THEN LET week == DictGet(context, "week", DefaultWeek) IN
         << [tool |-> "sql_query",
             description |-> "Fetch weekly sales totals",
             arguments |-> [query |->
                 <<"SELECT salesperson, SUM(amount) AS total_amount FROM sales WHERE week = '",
                   week, "' GROUP BY salesperson">>]],
            [tool |-> "report_generator",
             description |-> "Generate sales summary report",
             arguments |-> [title |-> <<"Sales Summary - ", week>>,
                            body |-> <<"Automatically generated summary from SQL results.">>,
                            filename |-> <<"sales-summary-", week, ".txt">>]] >>
    ELSE << >>

EmailSteps(text, context) ==
    IF Contains(text, KwEmail)
    THEN << [tool |-> "email_sender",
             description |-> "Email summary to stakeholders",
             arguments |-> [to |-> DictGet(context, "recipients", DefaultRecipients),
                            subject |-> "Automated Business Summary",
                            body |-> "Generated report is ready."]] >>
    ELSE << >>

MeetingSteps(text, context) ==
    IF Contains(text, KwMeeting)
       /\ (Contains(text, KwSummarize) \/ Contains(text, KwSummary))
    THEN << [tool |-> "meeting_summarizer",
             description |-> "Summarize meeting transcript",
             arguments |-> [transcript |-> DictGet(context, "transcript", "")]] >>
    ELSE << >>

CrmSteps(text, context) ==
    IF Contains(text, KwCrm) \/ Contains(text, KwUpdateCustomer)
    THEN << [tool |-> "crm_update",
             description |-> "Write activity note into CRM",
             arguments |-> [customer_id |-> DictGet(context, "customer_id", "CUST-001"),
                            note |-> DictGet(context, "crm_note",
                                             "Automated follow-up logged.")]] >>
    ELSE << >>

\* Variant of FallbackSteps that adds no step.
FallbackSteps_None(instruction) == << >>

FallbackSteps(instruction) ==
    << [tool |-> "report_generator",
        description |-> "Capture unsupported request into an operations report",
        arguments |-> [title |-> <<"Unhandled Automation Request">>,
                       body |-> <<"Instruction: ", instruction>>,
                       filename |-> <<"unhandled-request.txt">>]] >>

\* Variant of Plan that puts the steps in the order the keywords are found in
\* the instruction when crm comes first.
Plan_InstructionOrder(instruction, context) ==
    LET text == Lower(instruction)
        first == IF Len(text) >= 3 /\ SubSeq(text, 1, 3) = KwCrm
                 THEN CrmSteps(text, context) ELSE << >>
        last == IF first = << >> THEN CrmSteps(text, context) ELSE << >>
        plan == first \o SalesSteps(text, context) \o EmailSteps(text, context)
                \o MeetingSteps(text, context) \o last
    IN IF plan = << >> THEN FallbackSteps(instruction) ELSE plan

\* Variant of Plan that plans from the memory log: the fallback step alone while
\* the log is empty.
Plan_FromMemory(instruction, context) ==
    LET text == Lower(instruction)
        plan == SalesSteps(text, context) \o EmailSteps(text, context)
                \o MeetingSteps(text, context) \o CrmSteps(text, context)
    IN IF plan = << >> \/ entries = << >> THEN FallbackSteps(instruction) ELSE plan

\* WorkflowAutomationAgent._plan
Plan(instruction, context) ==
    LET text == Lower(instruction)
        plan == SalesSteps(text, context) \o EmailSteps(text, context)
                \o MeetingSteps(text, context) \o CrmSteps(text, context)
    IN IF plan = << >> THEN FallbackSteps(instruction) ELSE plan

\* ----------------------------------------------------------- tool registry

ToolNames ==
    {"sql_query", "report_generator", "email_sender", "crm_update", "meeting_summarizer"}

\* The message a handler of build_tools returns with ok = True.
OkMessage(name) ==
    CASE name = "sql_query" -> "Query executed"
      [] name = "report_generator" -> "Report generated"
      [] name = "email_sender" -> "Email queued"
      [] name = "crm_update" -> "CRM updated"
      [] name = "meeting_summarizer" -> "Meeting summarized"
      [] OTHER -> "ok"

\* The message of a handler that reports a failure (ok = False): that of
\* sql_query_tool, the one such result of build_tools, stands for any.
FailureMessages == {"Missing SQL query"}

\* What a registered handler (any ToolHandler: a function from the arguments to a
\* ToolResult) can do when called: return a result with ok = True, return a
\* result with ok = False, or raise.
HandlerOutcomes(name, args) ==
    {[kind |-> "result", handler |-> TRUE,
      result |-> [tool |-> name, ok |-> TRUE, message |-> OkMessage(name)]]}
    \cup {[kind |-> "result", handler |-> TRUE,
           result |-> [tool |-> name, ok |-> FALSE, message |-> m]] : m \in FailureMessages}
    \cup {[kind |-> "fault", handler |-> TRUE]}

UnknownToolResult(name) ==
    [tool |-> name, ok |-> FALSE, message |-> <<"Unknown tool: ", name>>]

\* Variant of RegistryRun that calls the handler without looking the name up.
RegistryRun_NoLookup(tools, name, args) == HandlerOutcomes(name, args)

\* ToolRegistry.run: the outcomes of run(name, args) on a registry holding `tools`.
\* `handler` tells whether a handler was invoked.
RegistryRun(tools, name, args) ==
    IF name \notin tools
    THEN {[kind |-> "result", handler |-> FALSE, result |-> UnknownToolResult(name)]}
    ELSE HandlerOutcomes(name, args)

\* ------------------------------------------------------------ memory store

\* Variant of MemoryAdd that puts the new entry at the head of the log.
MemoryAdd_Prepend(log, entry) == <<entry>> \o log

\* Variant of MemoryAdd that replaces the log by the new entry.
MemoryAdd_Overwrite(log, entry) == <<entry>>

\* MemoryStore.add
MemoryAdd(log, entry) == Append(log, entry)

Min(a, b) == IF a <= b THEN a ELSE b
Max(a, b) == IF a >= b THEN a ELSE b

\* The index a slice bound denotes in a list of length n: a negative bound
\* counts from the end, and both directions are clipped to 0..n.
SliceIndex(bound, n) == IF bound < 0 THEN Max(bound + n, 0) ELSE Min(bound, n)

\* list[start:]
SliceFrom(list, start) == SubSeq(list, SliceIndex(start, Len(list)) + 1, Len(list))

\* list[:stop]
SliceTo(list, stop) == SubSeq(list, 1, SliceIndex(stop, Len(list)))

\* The positions of the log whose entry is of user_id, in log order.
RECURSIVE UserPositions(_, _, _)
UserPositions(log, user_id, i) ==
    IF i > Len(log) THEN << >>
    ELSE (IF log[i].user_id = user_id THEN <<i>> ELSE << >>)
         \o UserPositions(log, user_id, i + 1)

\* MemoryStore.recent, as positions of the log:
\* candidates = [e for e in self.entries if e.user_id == user_id]; candidates[-limit:]
RecentPositions(log, user_id, limit) ==
    SliceFrom(UserPositions(log, user_id, 1), 0 - limit)

\* The entries at the given positions of the log.
EntriesAt(log, at) == [n \in 1..Len(at) |-> log[at[n]]]

\* MemoryStore.recent
Recent(log, user_id, limit) == EntriesAt(log, RecentPositions(log, user_id, limit))

Whitespace == {" "}

\* The characters strip() removes from the edges of a token.
Punctuation == {".", ",", "!", "?", ";", ":", "\"", "'", "(", ")", "[", "]", "{", "}"}

\* The positions at which a maximal run of characters that are not whitespace
\* starts.
RunStarts(text) ==
    {i \in 1..Len(text) : text[i] \notin Whitespace /\ (i = 1 \/ text[i - 1] \in Whitespace)}

\* The last position of the run that starts at i.
RunEnd(text, i) ==
    CHOOSE j \in i..Len(text) :
        /\ \A k \in i..j : text[k] \notin Whitespace
        /\ j = Len(text) \/ text[j + 1] \in Whitespace

\* str.split(): the maximal runs of characters that are not whitespace, in the
\* order of the text.
Split(text) ==
    LET starts == RunStarts(text) IN
    [n \in 1..Cardinality(starts) |->
        LET i == CHOOSE i \in starts : Cardinality({j \in starts : j < i}) = n - 1
        IN SubSeq(text, i, RunEnd(text, i))]

RECURSIVE LStrip(_)
LStrip(token) ==
    IF token # << >> /\ token[1] \in Punctuation THEN LStrip(Tail(token)) ELSE token

RECURSIVE RStrip(_)
RStrip(token) ==
    IF token # << >> /\ token[Len(token)] \in Punctuation
    THEN RStrip(SubSeq(token, 1, Len(token) - 1)) ELSE token

\* t.strip(".,!?;:\"'()[]{}")
Strip(token) == RStrip(LStrip(token))

\* [t.strip(...).lower() for t in text.split()], without the empty tokens
Tokens(text) ==
    LET raw == Split(text)
        all == [i \in 1..Len(raw) |-> Lower(Strip(raw[i]))]
    IN SelectSeq(all, LAMBDA t : t # << >>)

\* MemoryStore._vectorize: the Counter of the tokens, token -> occurrences.
Vectorize(text) ==
    LET tokens == Tokens(text) IN
    [t \in {tokens[i] : i \in 1..Len(tokens)} |->
        Cardinality({i \in 1..Len(tokens) : tokens[i] = t})]

RECURSIVE SumOver(_, _)
SumOver(S, f) ==
    IF S = {} THEN 0
    ELSE LET x == CHOOSE y \in S : TRUE IN f[x] + SumOver(S \ {x}, f)

\* sum(a[token] * b.get(token, 0) for token in a)
Dot(a, b) == SumOver(DOMAIN a, [t \in DOMAIN a |-> a[t] * DictGet(b, t, 0)])

\* sum(v * v for v in a.values())
SquaredNorm(a) == SumOver(DOMAIN a, [t \in DOMAIN a |-> a[t] * a[t]])

\* MemoryStore._cosine.  The score dot / (sqrt(na) * sqrt(nb)) is kept as the
\* exact fraction of its square, dot^2 / (na * nb): scores are never negative,
\* so they compare as their squares do.  The rounding of the floating-point
\* square roots and division is not modelled.
Cosine(a, b) ==
    IF DOMAIN a = {} \/ DOMAIN b = {} THEN [num |-> 0, den |-> 1]
    ELSE IF SquaredNorm(a) = 0 \/ SquaredNorm(b) = 0 THEN [num |-> 0, den |-> 1]
    ELSE [num |-> Dot(a, b) * Dot(a, b), den |-> SquaredNorm(a) * SquaredNorm(b)]

\* score > 0
Positive(score) == score.num > 0

\* x > y for two scores
Greater(x, y) == x.num * y.den > y.num * x.den

\* semantic_search: `if score > 0: scored.append(...)`
KeepScored(score) == Positive(score)

\* The (score, position) pairs semantic_search collects, in log order.
RECURSIVE Scored(_, _, _, _)
Scored(log, user_id, query_vector, i) ==
    IF i > Len(log) THEN << >>
    ELSE LET score == Cosine(query_vector, Vectorize(log[i].text)) IN
         (IF log[i].user_id = user_id /\ KeepScored(score)
          THEN << [score |-> score, at |-> i] >> ELSE << >>)
         \o Scored(log, user_id, query_vector, i + 1)

\* Variant of ComesBefore for a sort that reverses equal keys.
ComesBefore_Unstable(x, y) == Greater(x.score, y.score)

\* Whether x must stand before y in the sorted list when x was before y in the
\* list being sorted: list.sort(key=..., reverse=True) is stable, so x stays
\* before y unless the key of y is greater.
ComesBefore(x, y) == ~Greater(y.score, x.score)

\* Insert x, which followed every element of `sorted` in the original list.
RECURSIVE InsertSorted(_, _)
InsertSorted(sorted, x) ==
    IF sorted = << >> THEN <<x>>
    ELSE IF ComesBefore(sorted[Len(sorted)], x) THEN Append(sorted, x)
    ELSE Append(InsertSorted(SubSeq(sorted, 1, Len(sorted) - 1), x), sorted[Len(sorted)])

\* scored.sort(key=lambda x: x[0], reverse=True)
RECURSIVE SortDescending(_)
SortDescending(list) ==
    IF list = << >> THEN << >>
    ELSE InsertSorted(SortDescending(SubSeq(list, 1, Len(list) - 1)), list[Len(list)])

\* MemoryStore.semantic_search, as positions of the log.
SearchPositions(log, user_id, query, limit) ==
    LET top == SliceTo(SortDescending(Scored(log, user_id, Vectorize(query), 1)), limit)
    IN [n \in 1..Len(top) |-> top[n].at]

\* MemoryStore.semantic_search
SemanticSearch(log, user_id, query, limit) ==
    EntriesAt(log, SearchPositions(log, user_id, query, limit))

\* Variant of ConversationEntry without the task id.
ConversationEntry_Untagged(request, task_id) ==
    [kind |-> "conversation", user_id |-> request.user_id, text |-> request.instruction,
     metadata |-> EmptyDict]

ConversationEntry(request, task_id) ==
    [kind |-> "conversation", user_id |-> request.user_id, text |-> request.instruction,
     metadata |-> [task_id |-> task_id]]

\* Variant of TaskEntry with kind note.
TaskEntry_WrongKind(request, task_id, status, summary) ==
    [kind |-> "note", user_id |-> request.user_id, text |-> summary,
     metadata |-> [task_id |-> task_id, status |-> status]]

TaskEntry(request, task_id, status, summary) ==
    [kind |-> "task", user_id |-> request.user_id, text |-> summary,
     metadata |-> [task_id |-> task_id, status |-> status]]

\* ---------------------------------------------------------------- executor

Users == {"u-1", "u-2"}

InstrSalesEmail ==
    <<"S","a","l","e","s"," ","s","u","m","m","a","r","y",","," ","e","m","a","i","l"," ","i","t">>
InstrHello == <<"h","e","l","l","o">>
InstrCrm == <<"U","p","d","a","t","e"," ","C","R","M">>

\* The ExecuteRequest values the calls are made with: a three-step plan (sales
\* summary and email, with a week in the context), the fallback plan, and a
\* one-step crm_update plan of another user.
Requests ==
    { [user_id |-> "u-1", instruction |-> InstrSalesEmail, context |-> [week |-> "2026-W10"]],
      [user_id |-> "u-1", instruction |-> InstrHello, context |-> EmptyDict],
      [user_id |-> "u-2", instruction |-> InstrCrm, context |-> EmptyDict] }

\* The registries an agent is constructed with: build_tools' five tools, the
\* same without email_sender, and an empty ToolRegistry().
RegistrySetups == {ToolNames, ToolNames \ {"email_sender"}, {}}

CallIds == 1..MaxCalls

IdleCall ==
    [pc |-> "idle", request |-> None, task_id |-> 0, plan |-> << >>,
     outputs |-> << >>, ran |-> << >>, handled |-> << >>, fault |-> 0,
     previous |-> << >>, response |-> None]

\* TaskRecord(...) as execute() constructs it (status=TaskStatus.running).
NewRecord(task_id, request, plan) ==
    [task_id |-> task_id, user_id |-> request.user_id,
     instruction |-> request.instruction, status |-> "running",
     plan |-> plan, outputs |-> << >>]

\* Variant of WithStatus that leaves the status as it is.
WithStatus_Unchanged(record, status) == record

\* record.status = status
WithStatus(record, status) == [record EXCEPT !.status = status]

\* Variant of WithOutputs that leaves the outputs as they are.
WithOutputs_Dropped(record, outputs) == record

\* record.outputs = outputs
WithOutputs(record, outputs) == [record EXCEPT !.outputs = outputs]

\* The backquote character of the failure summary (a string of the model cannot
\* hold it).
Backquote == "BACKQUOTE"

\* f"Task failed during tool {step.tool}: {result.message}", the tool name
\* between backquotes.
FailureSummary(step, result) ==
    <<"Task failed during tool ", Backquote, step.tool, Backquote, ": ", result.message>>

\* Variant of Successful that counts the results with ok = False.
Successful_Failed(outputs) == Cardinality({i \in 1..Len(outputs) : ~outputs[i].ok})

\* sum(1 for result in outputs if result.get("ok"))
Successful(outputs) == Cardinality({i \in 1..Len(outputs) : outputs[i].ok})

\* str(n) for an int n >= 0
RECURSIVE Decimal(_)
Decimal(n) ==
    LET digit == <<"0", "1", "2", "3", "4", "5", "6", "7", "8", "9">>[(n % 10) + 1]
    IN IF n < 10 THEN <<digit>> ELSE Append(Decimal(n \div 10), digit)

\* The fixed parts of the summary: "Executed ", " planned steps with " and
\* " successful tool calls. Outputs include ... automation actions."
SummaryExecuted ==
    <<"E", "x", "e", "c", "u", "t", "e", "d", " ">>
SummaryPlanned ==
    <<" ", "p", "l", "a", "n", "n", "e", "d", " ", "s", "t", "e", "p", "s", " ", "w",
      "i", "t", "h", " ">>
SummarySuccessful ==
    <<" ", "s", "u", "c", "c", "e", "s", "s", "f", "u", "l", " ", "t", "o", "o", "l",
      " ", "c", "a", "l", "l", "s", ".", " ", "O", "u", "t", "p", "u", "t", "s", " ",
      "i", "n", "c", "l", "u", "d", "e", " ", "d", "a", "t", "a", "b", "a", "s", "e",
      " ", "e", "x", "t", "r", "a", "c", "t", "i", "o", "n", ",", " ", "a", "r", "t",
      "i", "f", "a", "c", "t", "s", ",", " ", "a", "n", "d", " ", "a", "u", "t", "o",
      "m", "a", "t", "i", "o", "n", " ", "a", "c", "t", "i", "o", "n", "s", ".">>

\* WorkflowAutomationAgent._summarize.  The summary is a text of the memory log
\* (the task entry), so it is given character by character.
Summarize(plan, outputs) ==
    SummaryExecuted \o Decimal(Len(plan)) \o SummaryPlanned
    \o Decimal(Successful(outputs)) \o SummarySuccessful

Response(call, status, summary) ==
    [task_id |-> call.task_id, status |-> status, plan |-> call.plan,
     outputs |-> call.outputs, summary |-> summary]

\* The operation just made was no query (recent() or semantic_search()).
NoQuery == [op |-> "none"]

Started == {c \in CallIds : calls[c].pc # "idle"}

Init ==
    /\ registered \in RegistrySetups
    /\ tasks = EmptyDict
    /\ entries = << >>
    /\ calls = [c \in CallIds |-> IdleCall]
    /\ lookup = None
    /\ lastQuery = NoQuery
    /\ email_log = << >>

\* execute(), lines 25-35: draw the task id, plan, construct the record with
\* status running and store it under its id.
Begin(c, request) ==
    /\ calls[c].pc = "idle"
    /\ c = Cardinality(Started) + 1
    /\ LET plan == Plan(request.instruction, request.context) IN
       /\ tasks' = [id \in DOMAIN tasks \cup {c} |->
                       IF id = c THEN NewRecord(c, request, plan) ELSE tasks[id]]
       /\ calls' = [calls EXCEPT ![c] =
                       [@ EXCEPT !.pc = "add_conversation", !.request = request,
                                 !.task_id = c, !.plan = plan]]
    /\ lastQuery' = NoQuery
    /\ UNCHANGED <<registered, entries, lookup, email_log>>

\* execute(), lines 37-46: append the conversation entry; outputs = [].
AddConversation(c) ==
    /\ calls[c].pc = "add_conversation"
    /\ entries' = MemoryAdd(entries, ConversationEntry(calls[c].request, calls[c].task_id))
    /\ calls' = [calls EXCEPT ![c].pc = "loop"]
    /\ lastQuery' = NoQuery
    /\ UNCHANGED <<registered, tasks, lookup, email_log>>

\* Variant of AfterRun in which a result with ok = False does not leave the loop.
AfterRun_NoShortCircuit(call, k, o) ==
    IF o.kind = "fault"
    THEN [call EXCEPT !.pc = "raised", !.ran = Append(@, k), !.fault = k,
                      !.handled = Append(@, k)]
    ELSE [call EXCEPT !.pc = "loop",
                      !.ran = Append(@, k),
                      !.handled = IF o.handler THEN Append(@, k) ELSE @,
                      !.outputs = Append(@, o.result)]

\* Variant of AfterRun in which a raise is caught and recorded as a result with
\* ok = False.
AfterRun_CatchFault(call, k, o) ==
    IF o.kind = "fault"
    THEN [call EXCEPT !.pc = "failing", !.ran = Append(@, k), !.fault = k,
                      !.handled = Append(@, k),
                      !.outputs = Append(@, [tool |-> call.plan[k].tool, ok |-> FALSE,
                                             message |-> "handler raised"])]
    ELSE [call EXCEPT !.pc = IF o.result.ok THEN "loop" ELSE "failing",
                      !.ran = Append(@, k),
                      !.handled = IF o.handler THEN Append(@, k) ELSE @,
                      !.outputs = Append(@, o.result)]

\* execute(), lines 47-50, on the outcome o of self.tools.run for step k: a
\* raise leaves execute() (nothing catches it); a result is appended to outputs,
\* and one with ok = False leaves the loop for the failure branch.
\* ran, handled and fault are history: the steps passed to the registry, the
\* steps for which a handler was invoked, and the step whose handler raised.
AfterRun(call, k, o) ==
    IF o.kind = "fault"
    THEN [call EXCEPT !.pc = "raised", !.ran = Append(@, k), !.fault = k,
                      !.handled = Append(@, k)]
    ELSE [call EXCEPT !.pc = IF o.result.ok THEN "loop" ELSE "failing",
                      !.ran = Append(@, k),
                      !.handled = IF o.handler THEN Append(@, k) ELSE @,
                      !.outputs = Append(@, o.result)]

\* execute(), lines 47-50: one iteration of the loop over the plan.
RunStep(c) ==
    /\ calls[c].pc = "loop"
    /\ Len(calls[c].outputs) < Len(calls[c].plan)
    /\ LET k == Len(calls[c].outputs) + 1
           step == calls[c].plan[k]
       IN \E o \in RegistryRun(registered, step.tool, step.arguments) :
              calls' = [calls EXCEPT ![c] = AfterRun(@, k, o)]
    /\ lastQuery' = NoQuery
    /\ UNCHANGED <<registered, tasks, entries, lookup, email_log>>

\* execute(), line 51: record.status = TaskStatus.failed
SetFailed(c) ==
    /\ calls[c].pc = "failing"
    /\ tasks' = [tasks EXCEPT ![calls[c].task_id] = WithStatus(@, "failed")]
    /\ calls' = [calls EXCEPT ![c].pc = "failed_outputs"]
    /\ lastQuery' = NoQuery
    /\ UNCHANGED <<registered, entries, lookup, email_log>>

\* Variant of ReturnFailed that goes on with the loop instead of returning.
ReturnFailed_NoReturn(c) ==
    /\ calls[c].pc = "failed_outputs"
    /\ tasks' = [tasks EXCEPT ![calls[c].task_id] = WithOutputs(@, calls[c].outputs)]
    /\ calls' = [calls EXCEPT ![c].pc = "loop"]
    /\ lastQuery' = NoQuery
    /\ UNCHANGED <<registered, entries, lookup, email_log>>

\* execute(), lines 52-60: record.outputs = outputs; return the failed response.
ReturnFailed(c) ==
    /\ calls[c].pc = "failed_outputs"
    /\ tasks' = [tasks EXCEPT ![calls[c].task_id] = WithOutputs(@, calls[c].outputs)]
    /\ LET k == Len(calls[c].outputs) IN
       calls' = [calls EXCEPT ![c] =
                    [@ EXCEPT !.pc = "returned",
                              !.response = Response(calls[c], tasks[calls[c].task_id].status,
                                  FailureSummary(calls[c].plan[k], calls[c].outputs[k]))]]
    /\ lastQuery' = NoQuery
    /\ UNCHANGED <<registered, entries, lookup, email_log>>

\* execute(), line 62, after the loop ran through: record.status = completed
SetCompleted(c) ==
    /\ calls[c].pc = "loop"
    /\ Len(calls[c].outputs) >= Len(calls[c].plan)
    /\ tasks' = [tasks EXCEPT ![calls[c].task_id] = WithStatus(@, "completed")]
    /\ calls' = [calls EXCEPT ![c].pc = "completed_outputs"]
    /\ lastQuery' = NoQuery
    /\ UNCHANGED <<registered, entries, lookup, email_log>>

\* execute(), lines 63-64: record.outputs = outputs
SetOutputs(c) ==
    /\ calls[c].pc = "completed_outputs"
    /\ tasks' = [tasks EXCEPT ![calls[c].task_id] = WithOutputs(@, calls[c].outputs)]
    /\ calls' = [calls EXCEPT ![c].pc = "add_task"]
    /\ lastQuery' = NoQuery
    /\ UNCHANGED <<registered, entries, lookup, email_log>>

\* execute(), lines 66-82: summarize, append the task entry, return.
AddTask(c) ==
    /\ calls[c].pc = "add_task"
    /\ LET status == tasks[calls[c].task_id].status
           summary == Summarize(calls[c].plan, calls[c].outputs)
       IN /\ entries' = MemoryAdd(entries,
                 TaskEntry(calls[c].request, calls[c].task_id, status, summary))
          /\ calls' = [calls EXCEPT ![c] =
                 [@ EXCEPT !.pc = "returned", !.response = Response(calls[c], status, summary)]]
    /\ lastQuery' = NoQuery
    /\ UNCHANGED <<registered, tasks, lookup, email_log>>

\* The task ids get_task is asked for: the ids drawn so far or later, and 0 for
\* an id that was never drawn.
LookupIds == CallIds \cup {0}

\* WorkflowAutomationAgent.get_task: self.tasks.get(task_id)
GetTask(task_id) ==
    /\ lookup' = [task_id |-> task_id,
                  record |-> IF task_id \in DOMAIN tasks THEN tasks[task_id] ELSE None]
    /\ lastQuery' = NoQuery
    /\ UNCHANGED <<registered, tasks, entries, calls, email_log>>

\* One step of the execute() call c.
CallStep(c) ==
    \/ AddConversation(c)
    \/ RunStep(c)
    \/ SetFailed(c)
    \/ ReturnFailed(c)
    \/ SetCompleted(c)
    \/ SetOutputs(c)
    \/ AddTask(c)

Next ==
    \/ \E c \in CallIds, request \in Requests : Begin(c, request)
    \/ \E c \in CallIds : CallStep(c)
    \/ \E task_id \in LookupIds : GetTask(task_id)

Spec == Init /\ [][Next]_vars

\* The scheduling of the calls: each execute() call runs in a thread of its own
\* (the hosting layer runs a synchronous endpoint in a worker thread) and a
\* runnable thread is eventually scheduled; a handler returns or raises.
FairSpec == Spec /\ \A c \in CallIds : WF_vars(CallStep(c))

\* ------------------------------------------------- memory store: operations

TextUpperAB == <<"A", " ", "b">>
TextBBA == <<"b", ",", " ", "b", " ", "a">>
TextC == <<"c", " ", "!">>

QueryAB == <<"a", " ", "B", ".">>
QueryB == <<"(", "b", ")">>
QueryNone == <<"?">>

\* The texts of the entries added to the log, and the queries searched for.
MemTexts == {TextUpperAB, TextBBA, TextC}
MemQueries == {QueryAB, QueryB, QueryNone}

\* The entries added to the log: each text for one user, one text for the other.
MemEntries ==
    {[kind |-> "note", user_id |-> "u-1", text |-> t, metadata |-> EmptyDict] : t \in MemTexts}
    \cup {[kind |-> "note", user_id |-> "u-2", text |-> TextUpperAB, metadata |-> EmptyDict]}

Limits == 0..MaxLimit

InitMem ==
    /\ registered = ToolNames
    /\ tasks = EmptyDict
    /\ entries = << >>
    /\ calls = [c \in CallIds |-> IdleCall]
    /\ lookup = None
    /\ lastQuery = NoQuery
    /\ email_log = << >>

\* memory.add(entry).  lastQuery holds what the operation just made returned
\* when it was a query, so an add clears it.
AddEntry(entry) ==
    /\ Len(entries) < MaxEntries
    /\ entries' = MemoryAdd(entries, entry)
    /\ lastQuery' = NoQuery
    /\ UNCHANGED <<registered, tasks, calls, lookup, email_log>>

\* memory.recent(user_id, limit).  `positions` are the places of the returned
\* entries in the log (history).
RecentQuery(user_id, limit) ==
    /\ lastQuery' = [op |-> "recent", user_id |-> user_id, query |-> << >>,
                     limit |-> limit,
                     positions |-> RecentPositions(entries, user_id, limit),
                     result |-> Recent(entries, user_id, limit)]
    /\ UNCHANGED <<registered, tasks, entries, calls, lookup, email_log>>

\* memory.semantic_search(user_id, query, limit)
SearchQuery(user_id, query, limit) ==
    /\ lastQuery' = [op |-> "semantic_search", user_id |-> user_id, query |-> query,
                     limit |-> limit,
                     positions |-> SearchPositions(entries, user_id, query, limit),
                     result |-> SemanticSearch(entries, user_id, query, limit)]
    /\ UNCHANGED <<registered, tasks, entries, calls, lookup, email_log>>

NextMem ==
    \/ \E entry \in MemEntries : AddEntry(entry)
    \/ \E user_id \in Users, limit \in Limits : RecentQuery(user_id, limit)
    \/ \E user_id \in Users, query \in MemQueries, limit \in Limits :
          SearchQuery(user_id, query, limit)

SpecMem == InitMem /\ [][NextMem]_vars

\* ---------------------------------------------------- memory store: claims

\* C9, as claimed: recent(user_id, limit) with limit >= 0 returns at most limit
\* entries, all of that user: the last limit entries of the user (all of them
\* when fewer exist), oldest first.
C9_RecentWindow ==
    lastQuery.op = "recent" =>
        LET log == entries
            at == lastQuery.positions
            mine == {i \in 1..Len(log) : log[i].user_id = lastQuery.user_id}
        IN /\ Len(lastQuery.result) <= lastQuery.limit
           /\ Len(lastQuery.result) = Min(lastQuery.limit, Cardinality(mine))
           /\ Len(at) = Len(lastQuery.result)
           /\ \A n \in 1..Len(at) :
                 /\ at[n] \in mine
                 /\ lastQuery.result[n] = log[at[n]]
                 /\ lastQuery.result[n].user_id = lastQuery.user_id
           /\ \A m, n \in 1..Len(at) : m < n => at[m] < at[n]
           /\ \A i \in mine \ Range(at) : \A n \in 1..Len(at) : i < at[n]

\* The score of the entry at position i of the log for the query just made.
ScoreAt(i) == Cosine(Vectorize(lastQuery.query), Vectorize(entries[i].text))

\* The entry at i ranks before the entry at j: a greater score, or the same
\* score and an earlier place in the log.
RanksBefore(i, j) ==
    \/ Greater(ScoreAt(i), ScoreAt(j))
    \/ ScoreAt(i).num * ScoreAt(j).den = ScoreAt(j).num * ScoreAt(i).den /\ i < j

FirstFailure(outputs) ==
    LET bad == {i \in 1..Len(outputs) : ~outputs[i].ok}
    IN IF bad = {} THEN 0 ELSE CHOOSE i \in bad : \A j \in bad : i <= j

AllOk(call) ==
    /\ Len(call.outputs) = Len(call.plan)
    /\ \A i \in 1..Len(call.outputs) : call.outputs[i].ok

\* C1, as claimed: every TaskRecord of the task store has len(outputs) <=
\* len(plan), with len(outputs) = len(plan) if and only if its status is
\* completed.
C1_OutputsEqualIffCompleted ==
    \A id \in DOMAIN tasks :
        /\ Len(tasks[id].outputs) <= Len(tasks[id].plan)
        /\ (Len(tasks[id].outputs) = Len(tasks[id].plan)) <=> (tasks[id].status = "completed")

\* C1, amended: every TaskRecord has len(outputs) <= len(plan) and a running
\* record has no outputs; once its execute() call has returned, a completed
\* record has len(outputs) = len(plan) and a failed record has between 1 and
\* len(plan) outputs, the last of them the failed one (len(outputs) = len(plan)
\* when the last step of the plan is the one that failed).
C1_OutputsBoundedByPlan ==
    \A id \in DOMAIN tasks :
        LET record == tasks[id] IN
        /\ Len(record.outputs) <= Len(record.plan)
        /\ record.status = "running" => record.outputs = << >>
        /\ calls[id].pc = "returned" /\ record.status = "completed"
              => Len(record.outputs) = Len(record.plan)
        /\ calls[id].pc = "returned" /\ record.status = "failed"
              => /\ Len(record.outputs) >= 1
                 /\ ~record.outputs[Len(record.outputs)].ok

\* C1 witness: a failed record of a returned call with as many outputs as plan
\* steps (the last step failed), beside a completed one.
C1_Witness ==
    /\ \E id \in DOMAIN tasks :
          /\ calls[id].pc = "returned" /\ tasks[id].status = "failed"
          /\ Len(tasks[id].plan) = 3
          /\ Len(tasks[id].outputs) = Len(tasks[id].plan)
    /\ \E id \in DOMAIN tasks :
          /\ calls[id].pc = "returned" /\ tasks[id].status = "completed"

\* C2: when step k is the first step of a call whose result has ok = FALSE, the
\* registry was invoked for the steps 1..k and no other, the call is in its
\* failure branch or has returned, and once it has returned the stored record
\* has status failed and the k outputs, and the response has status failed and
\* the summary naming the tool of step k and the message of its result.
C2_ShortCircuit ==
    \A c \in CallIds :
        LET call == calls[c]
            k == FirstFailure(call.outputs)
        IN k # 0 =>
            /\ call.ran = UpTo(k)
            /\ Len(call.outputs) = k
            /\ call.pc \in {"failing", "failed_outputs", "returned"}
            /\ call.pc = "returned" =>
                 /\ tasks[call.task_id].status = "failed"
                 /\ Len(tasks[call.task_id].outputs) = k
                 /\ tasks[call.task_id].outputs = call.outputs
                 /\ call.response.status = "failed"
                 /\ call.response.outputs = call.outputs
                 /\ call.response.summary =
                      <<"Task failed during tool ", Backquote, call.plan[k].tool, Backquote,
                        ": ", call.outputs[k].message>>

\* C2 witness: a returned call whose plan of three steps failed at step 2.
C2_Witness ==
    \E c \in CallIds :
        /\ calls[c].pc = "returned"
        /\ Len(calls[c].plan) = 3
        /\ FirstFailure(calls[c].outputs) = 2
        /\ calls[c].outputs[2].message \in FailureMessages

\* C3: a returned call all of whose steps had ok = TRUE has the stored record and
\* the response in status completed, one output per plan step in plan order,
\* and exactly one task-kind memory entry with its task id, which is of the
\* requesting user and carries status completed.
C3_Completion ==
    \A c \in CallIds :
        LET call == calls[c]
            mine == {i \in 1..Len(entries) :
                        entries[i].kind = "task" /\ entries[i].metadata.task_id = call.task_id}
        IN call.pc = "returned" /\ AllOk(call) =>
            /\ tasks[call.task_id].status = "completed"
            /\ call.response.status = "completed"
            /\ Len(tasks[call.task_id].outputs) = Len(call.plan)
            /\ \A i \in 1..Len(call.plan) :
                  tasks[call.task_id].outputs[i].tool = call.plan[i].tool
            /\ Cardinality(mine) = 1
            /\ \A i \in mine :
                  /\ entries[i].user_id = call.request.user_id
                  /\ entries[i].metadata.status = "completed"

\* C3 witness: a returned call whose three steps all succeeded.
C3_Witness ==
    \E c \in CallIds :
        /\ calls[c].pc = "returned" /\ AllOk(calls[c]) /\ Len(calls[c].plan) = 3
        /\ \E i \in 1..Len(entries) :
              entries[i].kind = "task" /\ entries[i].metadata.task_id = calls[c].task_id

\* C4: in every step, a record of the task store stays in the store and its
\* status stays or moves pending -> running or running -> completed / failed.
C4_StatusTransitions ==
    [][\A id \in DOMAIN tasks :
          /\ id \in DOMAIN tasks'
          /\ \/ tasks'[id].status = tasks[id].status
             \/ tasks[id].status = "pending" /\ tasks'[id].status = "running"
             \/ tasks[id].status = "running" /\ tasks'[id].status \in {"completed", "failed"}]_vars

\* C4 witness: one record completed and another failed, and get_task has read
\* a record in a final status.
C4_Witness ==
    /\ \E id \in DOMAIN tasks : tasks[id].status = "completed"
    /\ \E id \in DOMAIN tasks : tasks[id].status = "failed"
    /\ lookup # None /\ lookup.record # None
    /\ lookup.record.status \in {"completed", "failed"}

\* The status of the record stored under id; "absent" when there is none.
StatusOf(id) == IF id \in DOMAIN tasks THEN tasks[id].status ELSE "absent"

\* C5, as claimed: every record stored with status running eventually reaches
\* status completed or failed.
C5_RunningReachesFinal ==
    \A id \in CallIds :
        (StatusOf(id) = "running") ~> (StatusOf(id) \in {"completed", "failed"})

\* C5, amended: every record stored with status running eventually reaches
\* status completed or failed, or its execute() call is left by a raise of a
\* handler (and the record stays running).
C5_RunningReachesFinalOrRaises ==
    \A id \in CallIds :
        (StatusOf(id) = "running")
            ~> (StatusOf(id) \in {"completed", "failed"} \/ calls[id].pc = "raised")

\* C5 witness: both outcomes side by side: a call that returned with its record
\* completed, and a call that was left by a raise with its record still running.
C5_Witness ==
    /\ \E id \in DOMAIN tasks : calls[id].pc = "returned" /\ tasks[id].status = "completed"
    /\ \E id \in DOMAIN tasks : calls[id].pc = "raised" /\ tasks[id].status = "running"

\* The calls that have appended their conversation entry, and their task entry.
WroteConversation == {c \in CallIds : calls[c].pc \notin {"idle", "add_conversation"}}
WroteTask == {c \in CallIds : calls[c].pc = "returned" /\ calls[c].response.status = "completed"}

Positions(entry) == {i \in 1..Len(entries) : entries[i] = entry}

\* C6: under every interleaving of the calls, the task store holds exactly one
\* record per started call, carrying what that call wrote, and the memory log
\* holds exactly the entries the calls appended, each once, those of one call
\* in the order it appended them.
C6_StoresSerialized ==
    /\ DOMAIN tasks = Started
    /\ \A c \in Started :
          /\ tasks[c].task_id = calls[c].task_id
          /\ tasks[c].user_id = calls[c].request.user_id
          /\ tasks[c].instruction = calls[c].request.instruction
          /\ tasks[c].plan = calls[c].plan
          /\ tasks[c].outputs \in {<< >>, calls[c].outputs}
    /\ Len(entries) = Cardinality(WroteConversation) + Cardinality(WroteTask)
    /\ \A c \in WroteConversation :
          Cardinality(Positions(ConversationEntry(calls[c].request, c))) = 1
    /\ \A c \in WroteTask :
          LET e == [kind |-> "task", user_id |-> calls[c].request.user_id,
                    text |-> calls[c].response.summary,
                    metadata |-> [task_id |-> c, status |-> "completed"]]
          IN /\ Cardinality(Positions(e)) = 1
             /\ \A i \in Positions(ConversationEntry(calls[c].request, c)),
                   j \in Positions(e) : i < j

\* C6 witness: two calls ran interleaved: the call started second appended its
\* conversation entry first, and both have returned completed.
C6_Witness ==
    /\ Len(entries) = 4
    /\ entries[1].metadata.task_id = 2
    /\ entries[2].metadata.task_id = 1
    /\ \A c \in CallIds : calls[c].pc = "returned" /\ calls[c].response.status = "completed"

\* C7: a step that names a tool without a handler gets the result {tool: name,
\* ok: FALSE, message: "Unknown tool: <name>"}, no handler is invoked for it, it
\* is the last step the call runs, and the call returns with status failed.
C7_UnknownTool ==
    \A c \in CallIds :
        LET call == calls[c] IN
        \A j \in Range(call.ran) :
            call.plan[j].tool \notin registered =>
                /\ j = Len(call.outputs)
                /\ call.outputs[j] = [tool |-> call.plan[j].tool, ok |-> FALSE,
                                      message |-> <<"Unknown tool: ", call.plan[j].tool>>]
                /\ j \notin Range(call.handled)
                /\ call.ran = UpTo(j)
                /\ call.pc \in {"failing", "failed_outputs", "returned"}
                /\ call.pc = "returned" =>
                      /\ tasks[call.task_id].status = "failed"
                      /\ call.response.status = "failed"
                      /\ Len(tasks[call.task_id].outputs) = j

\* C7 witness: a returned call whose third step named email_sender, which has no
\* handler, after two steps that succeeded.
C7_Witness ==
    \E c \in CallIds :
        /\ calls[c].pc = "returned"
        /\ Len(calls[c].outputs) = 3
        /\ calls[c].plan[3].tool \notin registered
        /\ calls[c].outputs[3].message = <<"Unknown tool: ", "email_sender">>
        /\ calls[c].handled = <<1, 2>>

\* C8: when the handler of step k raises, the call is left by the raise: it
\* returns no response, the step has no ToolResult in outputs, the stored
\* record keeps status running and no outputs, and no step after k is run.
C8_FaultPropagates ==
    \A c \in CallIds :
        LET call == calls[c] IN
        call.fault # 0 =>
            /\ call.pc = "raised"
            /\ call.response = None
            /\ Len(call.outputs) = call.fault - 1
            /\ \A i \in 1..Len(call.outputs) : call.outputs[i].ok
            /\ call.ran = UpTo(call.fault)
            /\ tasks[call.task_id].status = "running"
            /\ tasks[call.task_id].outputs = << >>

\* C8 witness: the handler of the second of three steps raised, while the other
\* call went on to return.
C8_Witness ==
    \E c, d \in CallIds :
        /\ calls[c].fault = 2 /\ Len(calls[c].plan) = 3 /\ calls[c].pc = "raised"
        /\ calls[d].pc = "returned"

\* ------------------------------------------- floating-point cosine score

\* A natural number of any size is the sequence of its binary digits, the least
\* significant first and the last one 1 (zero is the empty sequence): the 53
\* binary digits of a float's significand do not fit an integer of the model.
RECURSIVE Bits(_)
Bits(n) == IF n = 0 THEN << >> ELSE <<n % 2>> \o Bits(n \div 2)

\* x without its leading zero digits.
Trim(x) ==
    SubSeq(x, 1, CHOOSE k \in 0..Len(x) :
                    (k = 0 \/ x[k] = 1) /\ \A j \in (k + 1)..Len(x) : x[j] = 0)

Bit(x, i) == IF i <= Len(x) THEN x[i] ELSE 0

\* Sums and differences are computed on groups of ChunkWidth digits, each group
\* an integer of the model.
ChunkWidth == 12
ChunkBase == 2 ^ ChunkWidth

\* The value of the w digits of x from digit i on.
RECURSIVE Chunk(_, _, _)
Chunk(x, i, w) == IF w = 0 THEN 0 ELSE Bit(x, i) + 2 * Chunk(x, i + 1, w - 1)

Chunks(x) ==
    [j \in 1..((Len(x) + ChunkWidth - 1) \div ChunkWidth) |->
        Chunk(x, ChunkWidth * (j - 1) + 1, ChunkWidth)]

Digits(chunks) ==
    Trim([i \in 1..(ChunkWidth * Len(chunks)) |->
            (chunks[((i - 1) \div ChunkWidth) + 1] \div (2 ^ ((i - 1) % ChunkWidth))) % 2])

RECURSIVE AddFrom(_, _, _, _)
AddFrom(x, y, j, carry) ==
    IF j > Max(Len(x), Len(y)) THEN (IF carry = 1 THEN <<1>> ELSE << >>)
    ELSE LET s == Bit(x, j) + Bit(y, j) + carry
         IN <<s % ChunkBase>> \o AddFrom(x, y, j + 1, s \div ChunkBase)

\* x + y
BigAdd(x, y) == Digits(AddFrom(Chunks(x), Chunks(y), 1, 0))

RECURSIVE SubFrom(_, _, _, _)
SubFrom(x, y, j, borrow) ==
    IF j > Len(x) THEN << >>
    ELSE LET d == Bit(x, j) - Bit(y, j) - borrow
         IN <<(d + ChunkBase) % ChunkBase>> \o SubFrom(x, y, j + 1, IF d < 0 THEN 1 ELSE 0)

\* x - y, for x >= y
BigSub(x, y) == Digits(SubFrom(Chunks(x), Chunks(y), 1, 0))

\* x < y
BigLess(x, y) ==
    IF Len(x) # Len(y) THEN Len(x) < Len(y)
    ELSE \E i \in 1..Len(x) : x[i] < y[i] /\ \A j \in (i + 1)..Len(x) : x[j] = y[j]

\* x * 2^k and x // 2^k
Shl(x, k) == IF x = << >> THEN << >> ELSE [i \in 1..k |-> 0] \o x
Shr(x, k) == SubSeq(x, k + 1, Len(x))

\* The product of two numbers given in groups, group by group: group k is the
\* sum of the products x[i] * y[k + 1 - i] and of the carry, modulo the base.
RECURSIVE MulFrom(_, _, _, _)
MulFrom(x, y, k, carry) ==
    IF k > Len(x) + Len(y) THEN << >>
    ELSE LET at == {i \in 1..Len(x) : k + 1 - i \in 1..Len(y)}
             s == carry + SumOver(at, [i \in at |-> x[i] * y[k + 1 - i]])
         IN <<s % ChunkBase>> \o MulFrom(x, y, k + 1, s \div ChunkBase)

\* x * y
BigMul(x, y) == Digits(MulFrom(Chunks(x), Chunks(y), 1, 0))

\* Long division, from digit i of n down: quotient q and remainder r of the
\* digits of n above i.
RECURSIVE DivFrom(_, _, _, _, _)
DivFrom(n, d, i, q, r) ==
    IF i = 0 THEN [q |-> Trim(q), r |-> r]
    ELSE LET r2 == Trim(<<n[i]>> \o r) IN
         IF BigLess(r2, d) THEN DivFrom(n, d, i - 1, <<0>> \o q, r2)
         ELSE DivFrom(n, d, i - 1, <<1>> \o q, BigSub(r2, d))

\* n // d and n % d, for n not shorter than d: the Len(d) - 1 leading digits of
\* n are below d, so the division starts with them as the remainder.
BigDivMod(n, d) ==
    LET i == Len(n) - (Len(d) - 1) IN DivFrom(n, d, i, << >>, Shr(n, i))

\* The square root digit by digit, from the pair of digits i, i - 1 of n down:
\* root and remainder r of the digits of n above i.  The next digit of the root
\* is 1 when the remainder, extended by the pair, reaches 4 * root + 1.
RECURSIVE SqrtFrom(_, _, _, _)
SqrtFrom(n, i, root, r) ==
    IF i = 0 THEN [root |-> root, rem |-> r]
    ELSE LET r2 == Trim(<<Bit(n, i - 1), Bit(n, i)>> \o r)
             t == Trim(<<1, 0>> \o root)
         IN IF BigLess(r2, t) THEN SqrtFrom(n, i - 2, Trim(<<0>> \o root), r2)
            ELSE SqrtFrom(n, i - 2, <<1>> \o root, BigSub(r2, t))

\* The integer square root of n and what it leaves: n = root^2 + rem.
BigSqrt(n) == SqrtFrom(n, 2 * ((Len(n) + 1) \div 2), << >>, << >>)

\* A float (IEEE 754 binary64, as Python's float) that is positive and normal
\* is [m, e] for the value m * 2^e, m a significand of exactly 53 digits; 0.0
\* has the empty significand.  The scores and norms computed here are zero or
\* between 2^-10 and 2^10, so no result is subnormal, infinite or NaN.
Precision == 53

FloatZero == [m |-> << >>, e |-> 0]
FloatOne == [m |-> Shl(<<1>>, Precision - 1), e |-> 0 - (Precision - 1)]

\* The float nearest to n * 2^e (plus a part below 2^e when `inexact`), ties to
\* the even significand: the rounding of every float operation.
Round(n, inexact, e) ==
    IF Len(n) <= Precision
    THEN [m |-> Shl(n, Precision - Len(n)), e |-> e - (Precision - Len(n))]
    ELSE LET drop == Len(n) - Precision
             kept == Shr(n, drop)
             below == inexact \/ \E i \in 1..(drop - 1) : n[i] = 1
             up == n[drop] = 1 /\ (below \/ kept[1] = 1)
             m == IF up THEN BigAdd(kept, <<1>>) ELSE kept
         IN IF Len(m) > Precision THEN [m |-> Shr(m, 1), e |-> e + drop + 1]
            ELSE [m |-> m, e |-> e + drop]

\* math.sqrt(n) for an int n >= 1: the root of n * 2^(2 * Precision) has more
\* than Precision digits, and what the root leaves tells whether it is exact.
Sqrt(n) ==
    LET s == BigSqrt(Shl(Bits(n), 2 * Precision))
    IN Round(s.root, s.rem # << >>, 0 - Precision)

\* x * y for two floats
FloatMul(x, y) ==
    IF x = FloatZero \/ y = FloatZero THEN FloatZero
    ELSE Round(BigMul(x.m, y.m), FALSE, x.e + y.e)

\* n / y for an int n >= 0 and a float y > 0: the quotient of n * 2^(2 *
\* Precision) by the significand of y has more than Precision digits.
FloatDiv(n, y) ==
    IF n = 0 THEN FloatZero
    ELSE LET d == BigDivMod(Shl(Bits(n), 2 * Precision), y.m)
         IN Round(d.q, d.r # << >>, 0 - 2 * Precision - y.e)

\* x <= y for two floats that are zero or positive
FloatLessEq(x, y) ==
    IF x = FloatZero THEN TRUE
    ELSE IF y = FloatZero THEN FALSE
    ELSE IF x.e # y.e THEN x.e < y.e
    ELSE ~BigLess(y.m, x.m)

\* MemoryStore._cosine, with the value the floating-point operations give.
CosineFloat(a, b) ==
    IF DOMAIN a = {} \/ DOMAIN b = {} THEN FloatZero
    ELSE LET dot == Dot(a, b)
             norm_a == Sqrt(SquaredNorm(a))
             norm_b == Sqrt(SquaredNorm(b))
         IN IF norm_a = FloatZero \/ norm_b = FloatZero THEN FloatZero
            ELSE FloatDiv(dot, FloatMul(norm_a, norm_b))

\* ------------------------------------------------ cosine score: operations

TextABC == <<"a", " ", "b", " ", "c">>

\* The texts scored against each other: those of the memory-store operations,
\* the empty text and a text of three tokens.
CosineTexts == MemTexts \cup MemQueries \cup {<< >>, TextABC}

\* The two texts are chosen; nothing is computed yet.
InitCosine ==
    /\ registered = ToolNames
    /\ tasks = EmptyDict
    /\ entries = << >>
    /\ calls = [c \in CallIds |-> IdleCall]
    /\ lookup = None
    /\ lastQuery \in {[op |-> "texts", a |-> a, b |-> b] : a, b \in CosineTexts}
    /\ email_log = << >>

\* self._cosine(self._vectorize(a), self._vectorize(b)), and the same with the
\* arguments exchanged.
ScorePair ==
    /\ lastQuery.op = "texts"
    /\ LET va == Vectorize(lastQuery.a)
           vb == Vectorize(lastQuery.b)
       IN lastQuery' = [op |-> "cosine", a |-> lastQuery.a, b |-> lastQuery.b,
                        score |-> CosineFloat(va, vb), reverse |-> CosineFloat(vb, va)]
    /\ UNCHANGED <<registered, tasks, entries, calls, lookup, email_log>>

NextCosine == ScorePair

SpecCosine == InitCosine /\ [][NextCosine]_vars

\* ---------------------------------------------------- cosine score: claims

\* C11, as claimed: the cosine score of two texts is the same in both
\* directions, lies in [0, 1], is 1.0 for two texts with identical non-empty
\* token vectors, and is 0.0 when the texts share no token or a vector is empty.
C11_CosineContract ==
    lastQuery.op = "cosine" =>
        LET va == Vectorize(lastQuery.a)
            vb == Vectorize(lastQuery.b)
        IN /\ lastQuery.score = lastQuery.reverse
           /\ FloatLessEq(FloatZero, lastQuery.score)
           /\ FloatLessEq(lastQuery.score, FloatOne)
           /\ (va = vb /\ DOMAIN va # {}) => lastQuery.score = FloatOne
           /\ (DOMAIN va \cap DOMAIN vb = {}) => lastQuery.score = FloatZero

\* ------------------------------------------------------ planner: operations

\* Longest instruction of the planner specification, in words.
MaxWords == 3

WordSales == <<"S", "a", "l", "e", "s">>
WordEmails == <<"e", "-", "m", "a", "i", "l", "s">>
WordEmail == <<"E", "M", "A", "I", "L", ",">>
WordMeeting == <<"M", "e", "e", "t", "i", "n", "g">>
WordCrm == <<"C", "R", "M">>
WordUpdate == <<"u", "p", "d", "a", "t", "e">>
WordCustomer == <<"c", "u", "s", "t", "o", "m", "e", "r">>

\* The words instructions are made of: the keywords of _plan in some spelling,
\* a word that holds none of them, and a spelling of email that does not hold it.
Vocabulary ==
    {WordSales, KwSummary, WordEmail, WordEmails, WordMeeting, KwSummarize, WordCrm,
     WordUpdate, WordCustomer, InstrHello}

\* The words joined by single spaces.
RECURSIVE Phrase(_)
Phrase(words) ==
    IF words = << >> THEN << >>
    ELSE IF Len(words) = 1 THEN words[1]
    ELSE words[1] \o <<" ">> \o Phrase(Tail(words))

\* An instruction that holds the keywords of all four predicates, in the
\* reverse of the order in which _plan tests them.
InstrAll ==
    <<"c", "r", "m", ":", " ", "s", "u", "m", "m", "a", "r", "i", "z", "e", " ", "t", "h", "e", " ", "m", "e", "e", "t", "i", "n", "g", ",", " ", "E", "m", "a", "i", "l", " ", "t", "h", "e", " ", "S", "A", "L", "E", "S", " ", "s", "u", "m", "m", "a", "r", "y">>

\* The instruction of test_sales_summary_execution.
InstrTest ==
    <<"G", "e", "n", "e", "r", "a", "t", "e", " ", "t", "h", "i", "s", " ", "w", "e", "e", "k", "'", "s", " ", "s", "a", "l", "e", "s", " ", "s", "u", "m", "m", "a", "r", "y", " ", "a", "n", "d", " ", "e", "m", "a", "i", "l", " ", "i", "t", " ", "t", "o", " ", "m", "a", "n", "a", "g", "e", "m", "e", "n", "t", ".">>

PlanInstructions ==
    {Phrase(words) : words \in UNION {[1..n -> Vocabulary] : n \in 0..MaxWords}}
    \cup {InstrAll, InstrTest}

\* The contexts: empty, a week only, and every key _plan reads.
PlanContexts ==
    { EmptyDict,
      [week |-> "2026-W10"],
      [week |-> "2026-W09", recipients |-> <<"ops@company.com">>,
       transcript |-> "We met. We agreed.", customer_id |-> "CUST-007",
       crm_note |-> "Called back."] }

PlanRequests ==
    {[user_id |-> "u-1", instruction |-> i, context |-> x] :
        i \in PlanInstructions, x \in PlanContexts}

\* The agent of main.py, constructed with the registry of build_tools.
InitPlan == Init /\ registered = ToolNames

\* One execute() call on a fresh agent, up to the stored record: its plan is
\* that of _plan for the request.
NextPlan == \E request \in PlanRequests : Begin(1, request)

SpecPlan == InitPlan /\ [][NextPlan]_vars

\* -------------------------------------------------------- planner: claims

\* The predicates 1-4 of the planner on the lower-cased instruction.
SalesMatches(text) == Contains(text, KwSales) /\ Contains(text, KwSummary)
EmailMatches(text) == Contains(text, KwEmail)
MeetingMatches(text) ==
    Contains(text, KwMeeting) /\ (Contains(text, KwSummarize) \/ Contains(text, KwSummary))
CrmMatches(text) == Contains(text, KwCrm) \/ Contains(text, KwUpdateCustomer)

NoneMatches(text) ==
    ~SalesMatches(text) /\ ~EmailMatches(text) /\ ~MeetingMatches(text) /\ ~CrmMatches(text)

\* The positions of the fallback step in a plan.
FallbackAt(plan) ==
    {i \in 1..Len(plan) :
        /\ plan[i].tool = "report_generator"
        /\ plan[i].arguments.title = <<"Unhandled Automation Request">>}

\* The tools of the steps of a plan, in plan order.
ToolsOf(plan) == [i \in 1..Len(plan) |-> plan[i].tool]

\* C12: the plan of every call is non-empty; it holds the fallback step if and
\* only if none of the predicates 1-4 matched the lower-cased instruction, and
\* then the fallback step, capturing the raw instruction, is its only step.
C12_FallbackIffNoMatch ==
    \A c \in Started :
        LET plan == calls[c].plan
            text == Lower(calls[c].request.instruction)
        IN /\ plan # << >>
           /\ tasks[c].plan = plan
           /\ (FallbackAt(plan) # {}) <=> NoneMatches(text)
           /\ FallbackAt(plan) # {} =>
                 /\ Len(plan) = 1
                 /\ plan[1].arguments.body = <<"Instruction: ", calls[c].request.instruction>>

\* C12 witness: an instruction that holds keywords but satisfies no predicate
\* (email spelled e-mails, customer before update) got the fallback plan.
C12_Witness ==
    \E c \in Started :
        /\ calls[c].request.instruction = Phrase(<<WordEmails, WordCustomer, WordUpdate>>)
        /\ FallbackAt(calls[c].plan) = {1}

\* C13: when the lower-cased instruction holds both "sales" and "summary", the
\* first two steps of the plan are sql_query and report_generator, whatever
\* other predicates match, and the query of the first and the title and the
\* filename of the second embed the same week: context["week"] when the context
\* has it, "2026-W11" otherwise.
C13_SalesStepsFirst ==
    \A c \in Started :
        LET plan == calls[c].plan
            context == calls[c].request.context
            week == IF "week" \in DOMAIN context THEN context.week ELSE "2026-W11"
        IN SalesMatches(Lower(calls[c].request.instruction)) =>
            /\ Len(plan) >= 2
            /\ plan[1].tool = "sql_query"
            /\ plan[2].tool = "report_generator"
            /\ plan[1].arguments.query =
                 <<"SELECT salesperson, SUM(amount) AS total_amount FROM sales WHERE week = '",
                   week, "' GROUP BY salesperson">>
            /\ plan[2].arguments.title = <<"Sales Summary - ", week>>
            /\ plan[2].arguments.filename = <<"sales-summary-", week, ".txt">>

\* C13 witness: all four predicates matched an instruction that names crm
\* first and sales last, with a week in the context: the plan starts with the
\* two sales steps, both for that week.
C13_Witness ==
    \E c \in Started :
        /\ calls[c].request.instruction = InstrAll
        /\ calls[c].request.context = [week |-> "2026-W10"]
        /\ Len(calls[c].plan) = 5
        /\ calls[c].plan[1].tool = "sql_query"
        /\ calls[c].plan[2].arguments.title = <<"Sales Summary - ", "2026-W10">>

\* The tools of the steps the matching predicates add, each predicate once, in
\* the order in which _plan declares the predicates.
DeclaredOrder(text) ==
    (IF SalesMatches(text) THEN <<"sql_query", "report_generator">> ELSE << >>)
    \o (IF EmailMatches(text) THEN <<"email_sender">> ELSE << >>)
    \o (IF MeetingMatches(text) THEN <<"meeting_summarizer">> ELSE << >>)
    \o (IF CrmMatches(text) THEN <<"crm_update">> ELSE << >>)

\* C14: when a predicate matches, the plan holds the steps of every matching
\* predicate exactly once and in the order sql_query, report_generator,
\* email_sender, meeting_summarizer, crm_update, wherever the keywords stand in
\* the instruction and however often they occur.
C14_DeclarationOrder ==
    \A c \in Started :
        LET text == Lower(calls[c].request.instruction) IN
        ~NoneMatches(text) => ToolsOf(calls[c].plan) = DeclaredOrder(text)

\* C14 witness: the instruction names crm, then email twice: the plan has one
\* email_sender step and then the crm_update step.
C14_Witness ==
    \E c \in Started :
        /\ calls[c].request.instruction = Phrase(<<WordCrm, WordEmail, WordEmail>>)
        /\ ToolsOf(calls[c].plan) = <<"email_sender", "crm_update">>

\* ------------------------------------------------ executor: further claims

StoreQuery == <<"s", "u", "m", "m", "a", "r", "y", " ", "s", "t", "e", "p", "s">>

\* The requests of the calls: the three-step plan of one user and the one-step
\* plan of the other.
StoreRequests == {request \in Requests : request.instruction # InstrHello}

\* The operations on the two stores: the execute() calls, get_task(), and the
\* queries recent() and semantic_search() on the memory log the calls write.
NextStores ==
    \/ \E c \in CallIds, request \in StoreRequests : Begin(c, request)
    \/ \E c \in CallIds : CallStep(c)
    \/ \E task_id \in LookupIds : GetTask(task_id)
    \/ \E user_id \in Users : RecentQuery(user_id, MaxLimit)
    \/ \E user_id \in Users : SearchQuery(user_id, StoreQuery, MaxLimit)

SpecStores == InitPlan /\ [][NextStores]_vars

\* C16: in every step of the calls and queries, the memory log afterwards is
\* the log before with entries appended at its end (none removed, moved or
\* changed), and every record of the task store is still stored under its id
\* and still that of the same call (task id, user, instruction and plan).
C16_StoresOnlyGrow ==
    [][/\ Len(entries') >= Len(entries)
       /\ SubSeq(entries', 1, Len(entries)) = entries
       /\ \A id \in DOMAIN tasks :
             /\ id \in DOMAIN tasks'
             /\ tasks'[id].task_id = tasks[id].task_id
             /\ tasks'[id].user_id = tasks[id].user_id
             /\ tasks'[id].instruction = tasks[id].instruction
             /\ tasks'[id].plan = tasks[id].plan]_vars

\* C16 witness: two calls of one user have stored their records, get_task has
\* read one, and a search has just returned three entries of the log in an
\* order that is not the log's (the second conversation entry before the first
\* task entry), the log itself being in the order of the appends.
C16_Witness ==
    /\ DOMAIN tasks = {1, 2}
    /\ lookup # None /\ lookup.record # None
    /\ lastQuery.op = "semantic_search"
    /\ lastQuery.positions = <<1, 3, 2>>
    /\ entries[1].kind = "conversation" /\ entries[2].kind = "task"
    /\ entries[3].kind = "conversation"

\* The positions in the memory log of the entries of a kind tagged with a task id.
TaggedAt(kind, task_id) ==
    {i \in 1..Len(entries) :
        /\ entries[i].kind = kind
        /\ "task_id" \in DOMAIN entries[i].metadata
        /\ entries[i].metadata.task_id = task_id}

\* What C17 says of the conversation entry: a call has at most one, it has
\* exactly one (of its user, holding its instruction) from the append on and so
\* before a tool is invoked, and it precedes the task entry of the call.
ConversationFirst(c) ==
    /\ Cardinality(TaggedAt("conversation", c)) <= 1
    /\ calls[c].pc # "add_conversation" => Cardinality(TaggedAt("conversation", c)) = 1
    /\ calls[c].ran # << >> => Cardinality(TaggedAt("conversation", c)) = 1
    /\ \A i \in TaggedAt("conversation", c) :
          /\ entries[i].user_id = calls[c].request.user_id
          /\ entries[i].text = calls[c].request.instruction
          /\ \A j \in TaggedAt("task", c) : i < j

\* C17, as claimed: every call appends exactly one conversation entry tagged
\* with its task id before any tool is invoked; a task entry with that id
\* exists if and only if the status of the record is completed; the
\* conversation entry precedes the task entry; a failed task has no task entry.
C17_TaskEntryIffCompleted ==
    \A c \in Started :
        /\ ConversationFirst(c)
        /\ (TaggedAt("task", c) # {}) <=> (tasks[c].status = "completed")
        /\ tasks[c].status = "failed" => TaggedAt("task", c) = {}

\* C17, amended: as claimed, but the task entry exists only if the status is
\* completed, and exists (once) for every completed record whose call has
\* returned: the status is set before the entry is appended.
C17_TaskEntryOnlyIfCompleted ==
    \A c \in Started :
        /\ ConversationFirst(c)
        /\ Cardinality(TaggedAt("task", c)) <= 1
        /\ TaggedAt("task", c) # {} => tasks[c].status = "completed"
        /\ calls[c].pc = "returned" /\ tasks[c].status = "completed"
              => Cardinality(TaggedAt("task", c)) = 1
        /\ tasks[c].status = "failed" => TaggedAt("task", c) = {}

\* C17 witness: two interleaved calls have returned, the first failed and the
\* second completed: the log holds the two conversation entries and then the
\* task entry of the second call alone.
C17_Witness ==
    /\ calls[1].pc = "returned" /\ tasks[1].status = "failed"
    /\ calls[2].pc = "returned" /\ tasks[2].status = "completed"
    /\ TaggedAt("conversation", 1) = {1}
    /\ TaggedAt("conversation", 2) = {2}
    /\ TaggedAt("task", 2) = {3}
    /\ Len(entries) = 3

\* What C18 says of a completed record: every output has ok = TRUE.
CompletedAllOk(record) ==
    record.status = "completed" => \A i \in 1..Len(record.outputs) : record.outputs[i].ok

\* The summary for a plan of n steps with n successful tool calls.
SummaryAllSuccessful(n) ==
    SummaryExecuted \o Decimal(n) \o SummaryPlanned \o Decimal(n) \o SummarySuccessful

\* C18, as claimed: in every record with status completed every output has
\* ok = TRUE; in every record with status failed exactly the last output has
\* ok = FALSE and all earlier outputs have ok = TRUE.
C18_LastOutputFailed ==
    \A id \in DOMAIN tasks :
        LET record == tasks[id] IN
        /\ CompletedAllOk(record)
        /\ record.status = "failed" =>
              /\ record.outputs # << >>
              /\ \A i \in 1..Len(record.outputs) :
                    record.outputs[i].ok <=> (i < Len(record.outputs))

\* C18, amended: in every record with status completed every output has
\* ok = TRUE, and when its call has returned it has one output per plan step
\* and the summary counts as many successful tool calls as the plan has steps;
\* in every record with status failed no output but the last has ok = FALSE,
\* and when its call has returned the record has outputs and the last has
\* ok = FALSE (the status is set before the outputs are stored).
C18_OutputsOkButLastFailed ==
    \A id \in DOMAIN tasks :
        LET record == tasks[id] IN
        /\ CompletedAllOk(record)
        /\ record.status = "completed" /\ calls[id].pc = "returned" =>
              /\ Len(record.outputs) = Len(record.plan)
              /\ calls[id].response.summary = SummaryAllSuccessful(Len(record.plan))
              /\ \A i \in TaggedAt("task", id) :
                    entries[i].text = SummaryAllSuccessful(Len(record.plan))
        /\ record.status = "failed" =>
              \A i \in 1..(Len(record.outputs) - 1) : record.outputs[i].ok
        /\ record.status = "failed" /\ calls[id].pc = "returned" =>
              /\ record.outputs # << >>
              /\ ~record.outputs[Len(record.outputs)].ok

\* C18 witness: a returned call whose record failed at the third of three
\* steps, after two outputs with ok = TRUE, and a returned call whose record
\* completed.
C18_Witness ==
    \E c, d \in CallIds :
        /\ calls[c].pc = "returned" /\ calls[d].pc = "returned"
        /\ tasks[c].status = "failed" /\ Len(tasks[c].outputs) = 3
        /\ tasks[c].outputs[1].ok /\ tasks[c].outputs[2].ok /\ ~tasks[c].outputs[3].ok
        /\ tasks[d].status = "completed" /\ Len(tasks[d].outputs) >= 1

\* --------------------------------------------------- email log: operations

\* email_sender_tool, lines 60-64: the payload made of the arguments.
EmailPayload(args) ==
    [to |-> DictGet(args, "to", DefaultRecipients),
     subject |-> DictGet(args, "subject", "Automated update"),
     body |-> DictGet(args, "body", "See attached report.")]

\* The step the loop of call c is at.
NextStep(c) == calls[c].plan[Len(calls[c].outputs) + 1]

AtEmailStep(c) ==
    /\ calls[c].pc = "loop"
    /\ Len(calls[c].outputs) < Len(calls[c].plan)
    /\ NextStep(c).tool = "email_sender"

\* An iteration of the loop for a step of another tool.
RunOther(c) == ~AtEmailStep(c) /\ RunStep(c)

\* email_sender_tool, lines 65-68, called for the step of call c: previous is
\* what the file holds ([] while there is no file).
EmailRead(c) ==
    /\ AtEmailStep(c)
    /\ calls' = [calls EXCEPT ![c] = [@ EXCEPT !.pc = "email_write", !.previous = email_log]]
    /\ lastQuery' = NoQuery
    /\ UNCHANGED <<registered, tasks, entries, lookup, email_log>>

\* email_sender_tool, lines 69-71, and execute(), lines 48-50: the payload is
\* appended to previous, previous is written to the file, and the result with
\* ok = True is appended to outputs.
EmailWrite(c) ==
    /\ calls[c].pc = "email_write"
    /\ LET k == Len(calls[c].outputs) + 1
           result == [tool |-> "email_sender", ok |-> TRUE,
                      message |-> OkMessage("email_sender")]
       IN /\ email_log' = Append(calls[c].previous, EmailPayload(NextStep(c).arguments))
          /\ calls' = [calls EXCEPT ![c] =
                AfterRun([@ EXCEPT !.pc = "loop"], k,
                         [kind |-> "result", handler |-> TRUE, result |-> result])]
    /\ lastQuery' = NoQuery
    /\ UNCHANGED <<registered, tasks, entries, lookup>>

\* One step of the execute() call c on the agent of main.py, whose email_sender
\* is email_sender_tool.
EmailCallStep(c) ==
    \/ AddConversation(c)
    \/ RunOther(c)
    \/ EmailRead(c)
    \/ EmailWrite(c)
    \/ SetFailed(c)
    \/ ReturnFailed(c)
    \/ SetCompleted(c)
    \/ SetOutputs(c)
    \/ AddTask(c)

NextEmail ==
    \/ \E c \in CallIds, request \in Requests : Begin(c, request)
    \/ \E c \in CallIds : EmailCallStep(c)

\* The execute() calls run in the threads of the hosting layer, as in Spec.
SpecEmail == InitPlan /\ [][NextEmail]_vars

\* ------------------------------------------------------- email log: claims

\* The email_sender invocations that have returned ok = TRUE.
EmailsSent ==
    UNION {{<<c, k>> : k \in {j \in DOMAIN calls[c].outputs :
                                    /\ calls[c].outputs[j].tool = "email_sender"
                                    /\ calls[c].outputs[j].ok}} : c \in CallIds}

\* C19, as claimed: every email_sender invocation that returns ok = TRUE adds
\* one entry to the email log and keeps the earlier ones: after N such
\* invocations, of whatever calls and however interleaved, the log (empty at
\* the start) holds N entries.
C19_EmailLogKeepsAll == Len(email_log) = Cardinality(EmailsSent)

====
